---- MODULE Spec2Model ----
(***************************************************************************)
(* Orders Manager (src/app.py): the order store and its status changes,    *)
(* the inventory catalog, the inventory movement ledger and the hook that  *)
(* ties them together, as the Flask handlers of src/app.py drive them.     *)
(*                                                                         *)
(* InventoryStore (src/app.py:3944-4114) defines no attribute named        *)
(* adjust_quantity, and nothing else in the file adds one, yet seven call  *)
(* sites use inventory.adjust_quantity(...).  In Python each of these      *)
(* calls raises AttributeError when the attribute is looked up, before any *)
(* argument is used.  The model keeps that behaviour: see adjust_quantity. *)
(***************************************************************************)
EXTENDS Integers, Sequences, FiniteSets, TLC

VARIABLES
    orders,     \* DataStore.df: Transaction ID -> row
    inv,        \* InventoryStore.df: sequence of catalog rows
    moves,      \* InventoryMovementStore.df: sequence of movements
    sess,       \* the Flask session: shipping_items, shipping_products
    net,        \* history: per order and item key, the stock change made for it
    clock,      \* the wall clock read by now_str()
    trip,       \* history: a Shipping->Returned change and the stock before it
    req         \* requests in flight (used by SpecConc only)

vars == <<orders, inv, moves, sess, net, clock, trip, req>>

----------------------------------------------------------------------------
(* Bounds of the model *)

MaxQty == 2      \* largest quantity typed into a form
MaxItems == 1    \* longest session product list
MaxSkus == 1     \* most rows in the catalog
MaxCode == 1     \* largest generated code number

----------------------------------------------------------------------------
(* Program constants *)

STATUS_PROCESSING == "Processing"
STATUS_READY == "Ready"
STATUS_SHIPPING == "Shipping"
STATUS_DELIVERED == "Delivered"
STATUS_RETURNED == "Returned"

Statuses ==
    {STATUS_PROCESSING, STATUS_READY, STATUS_SHIPPING, STATUS_DELIVERED, STATUS_RETURNED}

\* Transaction ids a request can carry, as their characters.
TxnChars ==
    [t \in {"100001", "12345"} |->
        CASE t = "100001" -> <<"1", "0", "0", "0", "0", "1">>
          [] t = "12345" -> <<"1", "2", "3", "4", "5">>]

TxnInputs == DOMAIN TxnChars

DigitChars == {"0", "1", "2", "3", "4", "5", "6", "7", "8", "9"}

\* re.fullmatch(r'\d{6,}', txn)
IsTxn(t) ==
    /\ Len(TxnChars[t]) >= 6
    /\ \A i \in 1..Len(TxnChars[t]) : TxnChars[t][i] \in DigitChars

Names == {"A", "B"}

\* f'{prefix}{n:04d}' for the code numbers the model reaches.
CodeTable ==
    <<"INV0001", "INV0002", "INV0003", "INV0004", "INV0005",
      "INV0006", "INV0007", "INV0008", "INV0009">>

FormatCode(n) == CodeTable[n]

GenCodes == {CodeTable[i] : i \in 1..Len(CodeTable)}

\* int(x.replace('INV', '') or 0) for a code that starts with 'INV'
CodeNumber(c) == CHOOSE n \in 1..Len(CodeTable) : CodeTable[n] = c

RECURSIVE SetMax(_)
SetMax(S) ==
    IF S = {} THEN 0
    ELSE LET x == CHOOSE y \in S : TRUE
             m == SetMax(S \ {x})
         IN IF x > m THEN x ELSE m

RECURSIVE SeqSum(_)
SeqSum(s) == IF s = <<>> THEN 0 ELSE Head(s) + SeqSum(Tail(s))

----------------------------------------------------------------------------
(* InventoryMovementStore *)

\* InventoryMovementStore._next_id
MovementNextId(mv) == SetMax({mv[i].id : i \in 1..Len(mv)}) + 1

\* InventoryMovementStore.add
MovementAdd(mv, code, name, delta, mtype, ref) ==
    Append(mv, [id |-> MovementNextId(mv), code |-> code, name |-> name,
                delta |-> delta, mtype |-> mtype, ref |-> ref])

\* InventoryMovementStore.filter_by_product_code
FilterByProductCode(mv, code) == SelectSeq(mv, LAMBDA m : m.code = code)

\* The sum of the deltas the ledger holds for a code.
LedgerSum(mv, code) ==
    SeqSum([i \in 1..Len(FilterByProductCode(mv, code)) |->
                FilterByProductCode(mv, code)[i].delta])

\* A load that finds the file unreadable and starts an empty ledger.
MovementLoadFresh(mv) == <<>>

\* InventoryMovementStore._load of the file save() wrote: the columns of COLS
\* of every row, in the file's order.
MovementLoad(mv) ==
    [i \in 1..Len(mv) |->
        [id |-> mv[i].id, code |-> mv[i].code, name |-> mv[i].name,
         delta |-> mv[i].delta, mtype |-> mv[i].mtype, ref |-> mv[i].ref]]

----------------------------------------------------------------------------
(* InventoryStore *)

\* InventoryStore.next_code
NextCodeNumber(iv) ==
    SetMax({CodeNumber(iv[i].code) : i \in {j \in 1..Len(iv) : iv[j].code \in GenCodes}}) + 1

\* InventoryStore.add_item
AddItem(iv, code, name, qty) ==
    Append(iv, [code |-> code, name |-> name, qty |-> qty])

\* InventoryStore.find_index_by_code (0 for None)
FindIndexByCode(iv, code) ==
    IF \E i \in 1..Len(iv) : iv[i].code = code
    THEN CHOOSE i \in 1..Len(iv) :
            /\ iv[i].code = code
            /\ \A j \in 1..(i - 1) : iv[j].code # code
    ELSE 0

\* InventoryStore.get_by_code
HasCode(iv, code) == FindIndexByCode(iv, code) # 0

\* A lookup that takes the first row of the name, as find_index_by_name does.
resolve_first_match(iv, v) ==
    IF v = "" THEN 0
    ELSE IF \E i \in 1..Len(iv) : iv[i].code = v
         THEN CHOOSE i \in 1..Len(iv) : iv[i].code = v /\ \A j \in 1..(i - 1) : iv[j].code # v
    ELSE IF \E i \in 1..Len(iv) : iv[i].name = v
         THEN CHOOSE i \in 1..Len(iv) : iv[i].name = v /\ \A j \in 1..(i - 1) : iv[j].name # v
    ELSE 0

\* InventoryStore.resolve_index (0 for None)
ResolveIndex(iv, v) ==
    IF v = "" THEN 0
    ELSE IF FindIndexByCode(iv, v) # 0 THEN FindIndexByCode(iv, v)
    ELSE LET matches == {i \in 1..Len(iv) : iv[i].name = v}
         IN IF Cardinality(matches) = 1 THEN CHOOSE i \in matches : TRUE ELSE 0

\* InventoryStore.update_item with the keys inventory_edit passes
UpdateItem(iv, code, name, qty) ==
    LET i == FindIndexByCode(iv, code)
    IN IF i = 0 THEN iv
       ELSE [iv EXCEPT ![i] = [code |-> iv[i].code, name |-> name, qty |-> qty]]

\* InventoryStore.delete_item
DeleteItem(iv, code) == SelectSeq(iv, LAMBDA r : r.code # code)

\* InventoryStore._load of the file save() wrote: the columns of COLS of
\* every row, in the file's order.
InventoryLoad(iv) ==
    [i \in 1..Len(iv) |-> [code |-> iv[i].code, name |-> iv[i].name, qty |-> iv[i].qty]]

\* What a working adjust_quantity would do, from its call sites and the two
\* stores: resolve the row, append the movement, add delta to Quantity.
adjust_quantity_defined(iv, mv, key, delta, mtype, ref) ==
    LET i == ResolveIndex(iv, key)
    IN IF i = 0
       THEN [raised |-> FALSE, ok |-> FALSE, inv |-> iv, moves |-> mv, applied |-> 0]
       ELSE [raised |-> FALSE, ok |-> TRUE,
             inv |-> [iv EXCEPT ![i].qty = @ + delta],
             moves |-> MovementAdd(mv, iv[i].code, iv[i].name, delta, mtype, ref),
             applied |-> delta]

\* inventory.adjust_quantity(key, delta, movement_type, ref): InventoryStore
\* has no attribute of this name, so evaluating the call raises
\* AttributeError; nothing is resolved, appended or written.
adjust_quantity(iv, mv, key, delta, mtype, ref) ==
    [raised |-> TRUE, ok |-> FALSE, inv |-> iv, moves |-> mv, applied |-> 0]

----------------------------------------------------------------------------
(* Order items *)

OrderIds == {t \in TxnInputs : IsTxn(t)}

ItemCodes == {CodeTable[i] : i \in 1..MaxCode} \cup {""}

\* ' + '.join(names) of two or more names
MultiName == "A + B"

Keys == (ItemCodes \ {""}) \cup Names \cup {MultiName}

\* The key of an item: its code, else its name (it['code'] or it['name'];
\* 'code:' + code / 'name:' + nm in _map_items).
ItemKey(it) == IF it.code # "" THEN it.code ELSE it.name

\* The name parse_items_from_row gives an item: its own, else the catalog's.
ItemName(iv, it) ==
    IF it.name = "" /\ it.code # "" /\ HasCode(iv, it.code)
    THEN iv[FindIndexByCode(iv, it.code)].name
    ELSE it.name

RECURSIVE NormItems(_, _)
NormItems(iv, items) ==
    IF items = <<>> THEN <<>>
    ELSE LET it == Head(items)
             nm == ItemName(iv, it)
             q == IF it.qty <= 0 THEN 1 ELSE it.qty
         IN (IF nm # "" THEN <<[code |-> it.code, name |-> nm, qty |-> q]>> ELSE <<>>)
            \o NormItems(iv, Tail(items))

\* parse_items_from_row: the Items column when it holds a list, else the
\* row's Product Name as one item of quantity 1.
parse_items_from_row(iv, row) ==
    IF row.items # <<>> THEN NormItems(iv, row.items)
    ELSE IF row.pname # "" THEN <<[code |-> "", name |-> row.pname, qty |-> 1]>>
    ELSE <<>>

\* _map_items: key -> total quantity
MapItems(items) ==
    [k \in Keys |->
        SeqSum([i \in 1..Len(items) |->
                    IF ItemKey(items[i]) = k
                    THEN (IF items[i].qty <= 0 THEN 1 ELSE items[i].qty)
                    ELSE 0])]

ZeroMap == [k \in Keys |-> 0]

----------------------------------------------------------------------------
(* The inventory hook *)

\* for it in items: inventory.adjust_quantity(it['code'] or it['name'], sign * qty, ...)
\* The first call that raises ends the loop.
RECURSIVE HookLoop(_, _, _, _, _)
HookLoop(st, items, sign, mtype, ref) ==
    IF items = <<>> \/ st.raised THEN st
    ELSE LET it == Head(items)
             r == adjust_quantity(st.inv, st.moves, ItemKey(it), sign * it.qty, mtype, ref)
         IN HookLoop([raised |-> r.raised, inv |-> r.inv, moves |-> r.moves,
                      applied |-> [st.applied EXCEPT ![ItemKey(it)] = @ + r.applied]],
                     Tail(items), sign, mtype, ref)

\* A hook that forgets the old status and takes the first item's quantity
\* off the stock itself on every change to Shipping.
hook_withdraws_on_any_shipping(iv, mv, row, txn, old, new) ==
    LET items == parse_items_from_row(iv, row)
        i == IF items = <<>> THEN 0 ELSE ResolveIndex(iv, ItemKey(items[1]))
    IN [raised |-> FALSE,
        inv |-> IF new = STATUS_SHIPPING /\ i # 0
                THEN [iv EXCEPT ![i].qty = @ - items[1].qty] ELSE iv,
        moves |-> mv, applied |-> ZeroMap]

\* adjust_inventory_on_transition(row, old_status, new_status); the except
\* clause swallows whatever the loop raises.
adjust_inventory_on_transition(iv, mv, row, txn, old, new) ==
    LET items == parse_items_from_row(iv, row)
        st0 == [raised |-> FALSE, inv |-> iv, moves |-> mv, applied |-> ZeroMap]
    IN IF items = <<>> THEN st0
       ELSE IF old = STATUS_READY /\ new = STATUS_SHIPPING
            THEN HookLoop(st0, items, -1, "Withdraw", txn)
       ELSE IF old = STATUS_SHIPPING /\ new = STATUS_RETURNED
            THEN HookLoop(st0, items, 1, "Return", txn)
       ELSE st0

\* What the except clauses around the hook (in adjust_inventory_on_transition
\* and in update_status) emit for a failure: both are `except Exception: pass`,
\* and the file has no logger, so nothing.
hook_failure_records(iv, mv, row, txn, old, new) == <<>>

----------------------------------------------------------------------------
(* DataStore *)

\* A row as upsert_row leaves it for the columns a caller did not give.
BlankRow ==
    [status |-> STATUS_READY, pname |-> "", items |-> <<>>,
     updAt |-> 0, shipAt |-> 0, delAt |-> 0, retAt |-> 0]

\* An upsert that takes any id, as add_bulk does.
upsert_row_unchecked(od, txn, row) ==
    [ok |-> TRUE, orders |-> [t \in DOMAIN od \cup {txn} |-> IF t = txn THEN row ELSE od[t]]]

\* DataStore.upsert_row: every column of the row is written, the ones the
\* caller left out as NA.
upsert_row(od, txn, row) ==
    IF ~IsTxn(txn) THEN [ok |-> FALSE, orders |-> od]
    ELSE [ok |-> TRUE, orders |-> [t \in DOMAIN od \cup {txn} |-> IF t = txn THEN row ELSE od[t]]]

\* DataStore.drop_by_txn
drop_by_txn(od, txn) == [t \in DOMAIN od \ {txn} |-> od[t]]

\* A stamping that empties the typed time stamps of the other statuses.
stamp_row_clearing(row, new, ts) ==
    [row EXCEPT !.status = new,
                !.updAt = ts,
                !.shipAt = IF new = STATUS_SHIPPING THEN ts ELSE 0,
                !.delAt = IF new = STATUS_DELIVERED THEN ts ELSE 0,
                !.retAt = IF new = STATUS_RETURNED THEN ts ELSE 0]

\* The row update_status writes before it calls the hook.
StampRow(row, new, ts) ==
    [row EXCEPT !.status = new,
                !.updAt = ts,
                !.shipAt = IF new = STATUS_SHIPPING THEN ts ELSE @,
                !.delAt = IF new = STATUS_DELIVERED THEN ts ELSE @,
                !.retAt = IF new = STATUS_RETURNED THEN ts ELSE @]

\* An update_status that makes the row it does not find.
update_status_creates(od, iv, mv, txn, new, ts) ==
    [ok |-> TRUE,
     orders |-> [t \in DOMAIN od \cup {txn} |->
                    IF t = txn THEN StampRow(BlankRow, new, ts) ELSE od[t]],
     inv |-> iv, moves |-> mv, old |-> "", raised |-> FALSE, applied |-> ZeroMap]

\* An update_status that gives the status change up when the hook raises.
update_status_rolls_back(od, iv, mv, txn, new, ts) ==
    IF txn \notin DOMAIN od
    THEN [ok |-> FALSE, orders |-> od, inv |-> iv, moves |-> mv,
          old |-> "", raised |-> FALSE, applied |-> ZeroMap]
    ELSE LET old == od[txn].status
             row == StampRow(od[txn], new, ts)
             h == adjust_inventory_on_transition(iv, mv, row, txn, old, new)
         IN [ok |-> ~h.raised,
             orders |-> IF h.raised THEN od ELSE [od EXCEPT ![txn] = row],
             inv |-> h.inv, moves |-> h.moves, old |-> old,
             raised |-> h.raised, applied |-> h.applied]

\* DataStore.update_status(txn, new_status), as its callers use it (none
\* passes return_reason).
update_status(od, iv, mv, txn, new, ts) ==
    IF txn \notin DOMAIN od
    THEN [ok |-> FALSE, orders |-> od, inv |-> iv, moves |-> mv,
          old |-> "", raised |-> FALSE, applied |-> ZeroMap]
    ELSE LET old == od[txn].status
             row == StampRow(od[txn], new, ts)
             h == adjust_inventory_on_transition(iv, mv, row, txn, old, new)
         IN [ok |-> TRUE, orders |-> [od EXCEPT ![txn] = row], inv |-> h.inv,
             moves |-> h.moves, old |-> old, raised |-> h.raised, applied |-> h.applied]

----------------------------------------------------------------------------
(* History *)

NoTrip == [phase |-> "none", txn |-> "", inv0 |-> <<>>, items |-> <<>>]

\* The round trip a status change is part of: a change Shipping -> Returned
\* opens one, the same order's change Returned -> Shipping right after it,
\* with the same items, closes it; any other handler ends it.
Trip(txn, old, new, items) ==
    trip' =
      IF old = STATUS_SHIPPING /\ new = STATUS_RETURNED
      THEN [phase |-> "returned", txn |-> txn, inv0 |-> inv, items |-> items]
      ELSE IF /\ old = STATUS_RETURNED /\ new = STATUS_SHIPPING
              /\ trip.phase = "returned" /\ trip.txn = txn /\ trip.items = items
      THEN [trip EXCEPT !.phase = "back"]
      ELSE NoTrip

NoTripStep == Trip("", "", "", <<>>)

\* net with the stock changes `applied` added to order txn
Charge(nt, txn, applied) ==
    IF txn \in DOMAIN nt
    THEN [nt EXCEPT ![txn] = [k \in Keys |-> @[k] + applied[k]]]
    ELSE nt

----------------------------------------------------------------------------
(* Order handlers *)

\* POST /orders/import_text, action=save, one parsed order; _new_txn gives a
\* transaction id that is not in the store.
orders_import_text ==
    \E txn \in OrderIds \ DOMAIN orders, pn \in Names :
        LET r == upsert_row(orders, txn,
                     [BlankRow EXCEPT !.status = STATUS_PROCESSING, !.pname = pn,
                                      !.updAt = clock])
        IN /\ orders' = r.orders
           /\ net' = [net EXCEPT ![txn] = ZeroMap]
           /\ NoTripStep
           /\ UNCHANGED <<inv, moves, sess, clock, req>>

\* POST /upload_pdf, one page that names transaction id txn
upload_pdf ==
    \E txn \in TxnInputs :
        LET r == upsert_row(orders, txn, BlankRow)
        IN /\ orders' = r.orders
           /\ net' = IF r.ok /\ txn \notin DOMAIN orders
                     THEN [net EXCEPT ![txn] = ZeroMap] ELSE net
           /\ NoTripStep
           /\ UNCHANGED <<inv, moves, sess, clock, req>>

\* POST /orders/processing/to_shipping
processing_to_shipping ==
    \E txn \in TxnInputs :
        LET r == update_status(orders, inv, moves, txn, STATUS_SHIPPING, clock)
        IN /\ orders' = r.orders
           /\ inv' = r.inv
           /\ moves' = r.moves
           /\ net' = Charge(net, txn, r.applied)
           /\ Trip(txn, r.old, IF r.ok THEN STATUS_SHIPPING ELSE "",
                   IF r.ok THEN parse_items_from_row(inv, r.orders[txn]) ELSE <<>>)
           /\ UNCHANGED <<sess, clock, req>>

\* POST /mark_returned
mark_returned ==
    \E txn \in TxnInputs :
        LET r == update_status(orders, inv, moves, txn, STATUS_RETURNED, clock)
        IN /\ orders' = r.orders
           /\ inv' = r.inv
           /\ moves' = r.moves
           /\ net' = Charge(net, txn, r.applied)
           /\ Trip(txn, r.old, IF r.ok THEN STATUS_RETURNED ELSE "",
                   IF r.ok THEN parse_items_from_row(inv, r.orders[txn]) ELSE <<>>)
           /\ UNCHANGED <<sess, clock, req>>

\* POST /delivered-bulk, apply_all, with one id in session['delivered_items']
\* (an id that is not in the store is skipped, which update_status's own
\* check answers the same way: nothing changes)
delivered_bulk ==
    \E txn \in TxnInputs :
        LET r == update_status(orders, inv, moves, txn, STATUS_DELIVERED, clock)
        IN /\ orders' = r.orders
           /\ inv' = r.inv
           /\ moves' = r.moves
           /\ net' = Charge(net, txn, r.applied)
           /\ Trip(txn, r.old, IF r.ok THEN STATUS_DELIVERED ELSE "",
                   IF r.ok THEN parse_items_from_row(inv, r.orders[txn]) ELSE <<>>)
           /\ UNCHANGED <<sess, clock, req>>

\* POST /returns-bulk and /delivered-bulk, apply_all, over the ids of the
\* session list: `if store.exists(txn): store.update_status(txn, new)`; an id
\* that is not in the store is passed over, and the one message flashed at
\* the end names no id, so the set of ids reported as failed stays empty.
RECURSIVE apply_all(_, _, _, _, _, _)
apply_all(od, iv, mv, txns, new, ts) ==
    IF txns = <<>> THEN [orders |-> od, inv |-> iv, moves |-> mv, failed |-> {}]
    ELSE LET r == update_status(od, iv, mv, Head(txns), new, ts)
         IN IF Head(txns) \in DOMAIN od
            THEN apply_all(r.orders, r.inv, r.moves, Tail(txns), new, ts)
            ELSE apply_all(od, iv, mv, Tail(txns), new, ts)

\* The lists of ids a session can hold (list(dict.fromkeys(...)): no id twice)
BulkLists ==
    {txns \in UNION {[1..n -> TxnInputs] : n \in 1..Cardinality(TxnInputs)} :
        \A i, j \in 1..Len(txns) : i # j => txns[i] # txns[j]}

\* GET /delete/<txn>
delete ==
    \E txn \in TxnInputs :
        /\ orders' = drop_by_txn(orders, txn)
        /\ NoTripStep
        /\ UNCHANGED <<inv, moves, sess, net, clock, req>>

----------------------------------------------------------------------------
(* Inventory handlers *)

Qtys == 0..MaxQty

\* POST /products/add
products_add ==
    \E nm \in Names, q \in Qtys :
        /\ Len(inv) < MaxSkus
        /\ NextCodeNumber(inv) <= MaxCode
        /\ inv' = AddItem(inv, FormatCode(NextCodeNumber(inv)), nm, q)
        /\ NoTripStep
        /\ UNCHANGED <<orders, moves, sess, net, clock, req>>

\* POST /inventory/add: the row is created with quantity 0 when the code is
\* new; a quantity other than 0 then goes to inventory.adjust_quantity, whose
\* exception nothing in the handler catches.
inventory_add ==
    \E code \in ItemCodes \ {""}, nm \in Names, q \in Qtys :
        LET iv1 == IF HasCode(inv, code) THEN inv ELSE AddItem(inv, code, nm, 0)
            r == adjust_quantity(iv1, moves, code, q, "Production", "MANUAL_ADD")
        IN /\ Len(iv1) <= MaxSkus
           /\ inv' = IF q # 0 THEN r.inv ELSE iv1
           /\ moves' = IF q # 0 THEN r.moves ELSE moves
           /\ NoTripStep
           /\ UNCHANGED <<orders, sess, net, clock, req>>

\* POST /inventory/edit/<code>
inventory_edit ==
    \E code \in ItemCodes \ {""}, nm \in Names, q \in Qtys :
        /\ HasCode(inv, code)
        /\ inv' = UpdateItem(inv, code, nm, q)
        /\ NoTripStep
        /\ UNCHANGED <<orders, moves, sess, net, clock, req>>

\* GET /products/delete/<code>
products_delete ==
    \E code \in ItemCodes \ {""} :
        /\ inv' = DeleteItem(inv, code)
        /\ NoTripStep
        /\ UNCHANGED <<orders, moves, sess, net, clock, req>>

\* The keys and quantities a form can carry to /inventory/adjust-bulk
AdjustKeys == (ItemCodes \ {""}) \cup Names

AdjustQtys == {-1} \cup (1..MaxQty)

\* inventory_adjust_bulk with a key and a quantity other than 0: what the
\* request answers and the stores it leaves.  The exception of
\* adjust_quantity is not caught: the request ends as an internal error.
inventory_adjust_bulk_do(iv, mv, key, q) ==
    LET r == adjust_quantity(iv, mv, key, q, "Manual", "MANUAL")
    IN [res |-> IF r.raised THEN "AttributeError" ELSE IF r.ok THEN "ok" ELSE "NotFound",
        inv |-> r.inv, moves |-> r.moves]

\* POST /inventory/adjust-bulk
inventory_adjust_bulk ==
    \E key \in AdjustKeys, q \in AdjustQtys :
        LET r == inventory_adjust_bulk_do(inv, moves, key, q)
        IN /\ inv' = r.inv
           /\ moves' = r.moves
           /\ NoTripStep
           /\ UNCHANGED <<orders, sess, net, clock, req>>

\* GET /inventory/product/<code>: both stores are read again from their files.
inventory_product ==
    \E code \in ItemCodes \ {""} :
        /\ inv' = InventoryLoad(inv)
        /\ moves' = MovementLoad(moves)
        /\ NoTripStep
        /\ UNCHANGED <<orders, sess, net, clock, req>>

----------------------------------------------------------------------------
(* SeamStore: the production log *)

\* SeamStore._next_id('LogID', self.log)
SeamNextId(lg) == SetMax({lg[i].id : i \in 1..Len(lg)}) + 1

\* The production logs a call of add_log can find
SeamLogs == {<<>>, <<[id |-> 1, sid |-> 1, model |-> "A", pieces |-> 1]>>}

\* SeamStore.add_log(sid, model, pieces, unit_cost): the entry is appended
\* and saved, then inventory.adjust_quantity(model, pieces, 'Production',
\* ref = 'SEAM:<log_id>') is called inside try / except Exception: pass.
add_log(lg, iv, mv, sid, model, pieces) ==
    LET log_id == SeamNextId(lg)
        a == adjust_quantity(iv, mv, model, pieces, "Production", <<"SEAM", log_id>>)
    IN [log |-> Append(lg, [id |-> log_id, sid |-> sid, model |-> model, pieces |-> pieces]),
        inv |-> a.inv, moves |-> a.moves, raised |-> a.raised]

----------------------------------------------------------------------------
(* /move-to-shipping *)

\* ' + '.join([x['name'] for x in sp if x['name']])
JoinNames(sp) ==
    LET named == SelectSeq(sp, LAMBDA it : it.name # "")
    IN IF named = <<>> THEN ""
       ELSE IF Len(named) = 1 THEN named[1].name
       ELSE MultiName

\* The first product of the session list that add_product merges into (0: none)
MergeIndex(sp, code, nm) ==
    LET hit(i) == sp[i].name = nm \/ (code # "" /\ sp[i].code = code)
    IN IF \E i \in 1..Len(sp) : hit(i)
       THEN CHOOSE i \in 1..Len(sp) : hit(i) /\ \A j \in 1..(i - 1) : ~hit(j)
       ELSE 0

\* POST /move-to-shipping, add_product: key 'CODE | NAME' or a name
add_product ==
    \E code \in ItemCodes, nm0 \in Names \cup {""}, q \in 1..MaxQty :
        LET nm == IF code # "" /\ HasCode(inv, code)
                  THEN inv[FindIndexByCode(inv, code)].name ELSE nm0
            sp == sess.shipping_products
            i == MergeIndex(sp, code, nm)
        IN /\ nm # ""
           /\ IF i # 0
              THEN /\ sp[i].qty + q <= MaxQty
                   /\ sess' = [sess EXCEPT !.shipping_products[i].qty = @ + q]
              ELSE /\ Len(sp) < MaxItems
                   /\ sess' = [sess EXCEPT !.shipping_products =
                                   Append(sp, [code |-> code, name |-> nm, qty |-> q])]
           /\ NoTripStep
           /\ UNCHANGED <<orders, inv, moves, net, clock, req>>

\* POST /move-to-shipping, remove_product
remove_product ==
    \E rm \in Names :
        /\ sess' = [sess EXCEPT !.shipping_products =
                        SelectSeq(@, LAMBDA it : it.name # rm)]
        /\ NoTripStep
        /\ UNCHANGED <<orders, inv, moves, net, clock, req>>

\* POST /move-to-shipping, clear_products
clear_products ==
    /\ sess' = [sess EXCEPT !.shipping_products = <<>>]
    /\ NoTripStep
    /\ UNCHANGED <<orders, inv, moves, net, clock, req>>

\* The name the reconciliation passes to adjust_quantity for key k
ReconcileName(iv, k, oldItems, newItems) ==
    IF k \in GenCodes
    THEN IF HasCode(iv, k) /\ iv[FindIndexByCode(iv, k)].name # ""
         THEN iv[FindIndexByCode(iv, k)].name
         ELSE LET both == oldItems \o newItems
                  hits == {i \in 1..Len(both) : both[i].code = k}
              IN IF hits = {} THEN ""
                 ELSE both[CHOOSE i \in hits : \A j \in hits : i <= j].name
    ELSE k

\* for k in all_keys: delta = old_q - new_q; inventory.adjust_quantity(nm, delta)
RECURSIVE ReconcileLoop(_, _, _, _, _)
ReconcileLoop(st, ks, oldItems, newItems, iv0) ==
    IF ks = {} \/ st.raised THEN st
    ELSE LET k == CHOOSE x \in ks : TRUE
             delta == MapItems(oldItems)[k] - MapItems(newItems)[k]
             nm == ReconcileName(iv0, k, oldItems, newItems)
             r == adjust_quantity(st.inv, st.moves, nm, delta, "Manual", "")
         IN IF delta = 0 \/ nm = ""
            THEN ReconcileLoop(st, ks \ {k}, oldItems, newItems, iv0)
            ELSE ReconcileLoop([raised |-> r.raised, inv |-> r.inv, moves |-> r.moves,
                                applied |-> [st.applied EXCEPT ![k] = @ + r.applied]],
                               ks \ {k}, oldItems, newItems, iv0)

\* A correction that does not look at the status: it takes the first new
\* item's quantity off its catalog row for any order.
reconcile_any_status(iv, mv, row, sp) ==
    LET newItems == NormItems(iv, sp)
        i == IF newItems = <<>> THEN 0 ELSE ResolveIndex(iv, ItemKey(newItems[1]))
    IN [raised |-> FALSE,
        inv |-> IF i # 0 THEN [iv EXCEPT ![i].qty = @ - newItems[1].qty] ELSE iv,
        moves |-> mv, applied |-> ZeroMap]

\* The stock correction apply_name makes for one order that is Shipping
Reconcile(iv, mv, row, sp) ==
    LET oldItems == parse_items_from_row(iv, row)
        newItems == NormItems(iv, sp)
        ks == {k \in Keys : MapItems(oldItems)[k] # 0 \/ MapItems(newItems)[k] # 0}
        st0 == [raised |-> FALSE, inv |-> iv, moves |-> mv, applied |-> ZeroMap]
    IN IF row.status = STATUS_SHIPPING /\ newItems # <<>>
       THEN ReconcileLoop(st0, ks, oldItems, newItems, iv)
       ELSE st0

\* The loop of apply_name over session['shipping_items']
RECURSIVE ApplyNameLoop(_, _, _)
ApplyNameLoop(st, txns, sp) ==
    IF txns = <<>> THEN st
    ELSE LET txn == Head(txns)
         IN IF txn \notin DOMAIN st.orders
            THEN ApplyNameLoop(st, Tail(txns), sp)
            ELSE LET r == Reconcile(st.inv, st.moves, st.orders[txn], sp)
                     row == IF sp # <<>>
                            THEN [st.orders[txn] EXCEPT !.items = sp, !.pname = JoinNames(sp)]
                            ELSE st.orders[txn]
                 IN ApplyNameLoop(
                        [orders |-> [st.orders EXCEPT ![txn] = row],
                         inv |-> r.inv, moves |-> r.moves,
                         net |-> Charge(st.net, txn, r.applied),
                         raised |-> st.raised \/ r.raised],
                        Tail(txns), sp)

\* POST /move-to-shipping, apply_name
apply_name ==
    LET r == ApplyNameLoop([orders |-> orders, inv |-> inv, moves |-> moves,
                            net |-> net, raised |-> FALSE],
                           sess.shipping_items, sess.shipping_products)
    IN /\ orders' = r.orders
       /\ inv' = r.inv
       /\ moves' = r.moves
       /\ net' = r.net
       /\ sess' = [sess EXCEPT !.shipping_items = <<>>]
       /\ NoTripStep
       /\ UNCHANGED <<clock, req>>

\* POST /move-to-shipping with txn: the session's products are written to the
\* order, then the status changes to Shipping.
move_to_shipping ==
    \E txn \in TxnInputs :
        LET sp == sess.shipping_products
            od1 == IF txn \in DOMAIN orders /\ sp # <<>>
                   THEN [orders EXCEPT ![txn] = [@ EXCEPT !.items = sp, !.pname = JoinNames(sp)]]
                   ELSE orders
            r == update_status(od1, inv, moves, txn, STATUS_SHIPPING, clock)
            inList == \E i \in 1..Len(sess.shipping_items) : sess.shipping_items[i] = txn
        IN /\ orders' = r.orders
           /\ inv' = r.inv
           /\ moves' = r.moves
           /\ net' = Charge(net, txn, r.applied)
           /\ sess' = IF r.ok /\ ~inList
                      THEN [sess EXCEPT !.shipping_items = Append(@, txn)]
                      ELSE sess
           /\ Trip(txn, r.old, IF r.ok THEN STATUS_SHIPPING ELSE "",
                   IF r.ok THEN parse_items_from_row(inv, r.orders[txn]) ELSE <<>>)
           /\ UNCHANGED <<clock, req>>

----------------------------------------------------------------------------
(* The program, one request at a time *)

Init ==
    /\ orders = <<>>
    /\ inv = <<>>
    /\ moves = <<>>
    /\ sess = [shipping_items |-> <<>>, shipping_products |-> <<>>]
    /\ net = [t \in OrderIds |-> ZeroMap]
    /\ clock = 1
    /\ trip = NoTrip
    /\ req = <<>>

Next ==
    \/ orders_import_text
    \/ upload_pdf
    \/ processing_to_shipping
    \/ mark_returned
    \/ delivered_bulk
    \/ delete
    \/ products_add
    \/ inventory_add
    \/ inventory_edit
    \/ products_delete
    \/ inventory_adjust_bulk
    \/ inventory_product
    \/ add_product
    \/ remove_product
    \/ clear_products
    \/ apply_name
    \/ move_to_shipping

Spec == Init /\ [][Next]_vars

----------------------------------------------------------------------------
(* The program started on a ledger file that already holds movements
   (inventory_movements.xlsx is read at construction). *)

MaxMoves == 1    \* most movements in the ledger file at the start

LedgerRows ==
    {[id |-> 1, code |-> CodeTable[1], name |-> "A", delta |-> d,
      mtype |-> IF d < 0 THEN "Withdraw" ELSE "Production", ref |-> "MANUAL"] :
        d \in {-1, 1}}

LedgerFiles == UNION {[1..n -> LedgerRows] : n \in 0..MaxMoves}

InitLedger ==
    /\ orders = <<>>
    /\ inv = <<>>
    /\ moves \in LedgerFiles
    /\ sess = [shipping_items |-> <<>>, shipping_products |-> <<>>]
    /\ net = [t \in OrderIds |-> ZeroMap]
    /\ clock = 1
    /\ trip = NoTrip
    /\ req = <<>>

SpecLedger == InitLedger /\ [][Next]_vars

----------------------------------------------------------------------------
(* The program under app.run(debug=True): the development server answers
   each request on a thread of its own, and no handler, store or hook of
   src/app.py takes a lock.  A request is a record of req; the statements of
   DataStore.update_status are steps that other requests can run between. *)

MaxReq == 2      \* requests in flight

\* The requests the threads can be answering: a status change posted to
\* /orders/processing/to_shipping, /mark_returned or /delivered-bulk, or a
\* quantity posted to /inventory/adjust-bulk.
TransitionReqs ==
    {[kind |-> "transition", pc |-> "exists", txn |-> t, new |-> n, old |-> "",
      key |-> "", delta |-> 0, res |-> ""] :
        t \in TxnInputs, n \in {STATUS_SHIPPING, STATUS_RETURNED, STATUS_DELIVERED}}

AdjustReqs ==
    {[kind |-> "adjust", pc |-> "call", txn |-> "", new |-> "", old |-> "",
      key |-> k, delta |-> d, res |-> ""] :
        k \in AdjustKeys, d \in AdjustQtys}

\* One order, in any status and with or without a product name (POST
\* /edit/<txn> writes both columns from the form), one catalog row, an empty
\* ledger, and MaxReq requests that have just arrived.
InitConc ==
    /\ \E st \in Statuses, pn \in {"", "A"} :
          orders = [t \in OrderIds |-> [BlankRow EXCEPT !.status = st, !.pname = pn]]
    /\ \E q \in Qtys : inv = <<[code |-> CodeTable[1], name |-> "A", qty |-> q]>>
    /\ moves = <<>>
    /\ sess = [shipping_items |-> <<>>, shipping_products |-> <<>>]
    /\ net = [t \in OrderIds |-> ZeroMap]
    /\ clock = 1
    /\ trip = [NoTrip EXCEPT !.inv0 = inv]
    /\ req \in [1..MaxReq -> TransitionReqs \cup AdjustReqs]

\* update_status: if not self.exists(txn): return False, ...
update_status_exists ==
    \E r \in DOMAIN req :
        /\ req[r].pc = "exists"
        /\ req' = IF req[r].txn \in DOMAIN orders
                  THEN [req EXCEPT ![r].pc = "read"]
                  ELSE [req EXCEPT ![r].pc = "done", ![r].res = "missing"]
        /\ UNCHANGED <<orders, inv, moves, sess, net, clock, trip>>

\* update_status: old_status = self.df.at[txn, "Status"]
update_status_read ==
    \E r \in DOMAIN req :
        /\ req[r].pc = "read"
        /\ req' = [req EXCEPT ![r].pc = "write", ![r].old = orders[req[r].txn].status]
        /\ UNCHANGED <<orders, inv, moves, sess, net, clock, trip>>

\* update_status: self.df.at[txn, "Status"] = new_status, the time stamps,
\* self.save()
update_status_write ==
    \E r \in DOMAIN req :
        /\ req[r].pc = "write"
        /\ orders' = [orders EXCEPT ![req[r].txn] = StampRow(@, req[r].new, clock)]
        /\ req' = [req EXCEPT ![r].pc = "hook"]
        /\ UNCHANGED <<inv, moves, sess, net, clock, trip>>

\* update_status: try: adjust_inventory_on_transition(row, old_status,
\* new_status) except Exception: pass; return True, ret
update_status_hook ==
    \E r \in DOMAIN req :
        LET h == adjust_inventory_on_transition(inv, moves, orders[req[r].txn],
                                                req[r].txn, req[r].old, req[r].new)
        IN /\ req[r].pc = "hook"
           /\ inv' = h.inv
           /\ moves' = h.moves
           /\ req' = [req EXCEPT ![r].pc = "done",
                                 ![r].res = IF h.raised THEN "swallowed" ELSE "ok"]
           /\ UNCHANGED <<orders, sess, net, clock, trip>>

\* inventory_adjust_bulk on its thread: the call of inventory.adjust_quantity
\* is its only access to the stores.
inventory_adjust_bulk_call ==
    \E r \in DOMAIN req :
        LET a == inventory_adjust_bulk_do(inv, moves, req[r].key, req[r].delta)
        IN /\ req[r].pc = "call"
           /\ inv' = a.inv
           /\ moves' = a.moves
           /\ req' = [req EXCEPT ![r].pc = "done", ![r].res = a.res]
           /\ UNCHANGED <<orders, sess, net, clock, trip>>

NextConc ==
    \/ update_status_exists
    \/ update_status_read
    \/ update_status_write
    \/ update_status_hook
    \/ inventory_adjust_bulk_call

SpecConc == InitConc /\ [][NextConc]_vars

----------------------------------------------------------------------------
(* InventoryStore.resolve_index on its own: a catalog of up to MaxRows rows
   with pairwise distinct codes (next_code and inventory_add never give a
   code twice) and any names, and one call with a code or a name. *)

MaxRows == 2     \* most rows of the catalog a lookup sees

\* Codes of catalog rows: generated ones and one typed into /inventory/add
\* that is also a product name.
ResolveCodes == {CodeTable[1], CodeTable[2], "A"}

ResolveKeys == ResolveCodes \cup Names \cup {""}

ResolveRows == [code : ResolveCodes, name : Names, qty : {0}]

ResolveCatalogs ==
    {iv \in UNION {[1..n -> ResolveRows] : n \in 0..MaxRows} :
        \A i, j \in 1..Len(iv) : i # j => iv[i].code # iv[j].code}

InitResolve ==
    /\ orders = <<>>
    /\ inv \in ResolveCatalogs
    /\ moves = <<>>
    /\ sess = [shipping_items |-> <<>>, shipping_products |-> <<>>]
    /\ net = [t \in OrderIds |-> ZeroMap]
    /\ clock = 1
    /\ trip = NoTrip
    /\ \E k \in ResolveKeys :
          req = <<[kind |-> "resolve", pc |-> "call", key |-> k, res |-> 0]>>

\* i = inventory.resolve_index(key)
resolve_index_call ==
    /\ req[1].pc = "call"
    /\ req' = [req EXCEPT ![1].pc = "done", ![1].res = ResolveIndex(inv, req[1].key)]
    /\ UNCHANGED <<orders, inv, moves, sess, net, clock, trip>>

NextResolve == resolve_index_call

SpecResolve == InitResolve /\ [][NextResolve]_vars

----------------------------------------------------------------------------
(* InventoryMovementStore.add on the threads of the server: the statements
   of add are steps, and nothing in the class takes a lock.  (No handler of
   this file calls add; these are the calls a working adjust_quantity would
   make.) *)

AddReqs ==
    {[kind |-> "add", pc |-> "next_id", id |-> 0, delta |-> d] : d \in AdjustQtys}

InitAppend ==
    /\ orders = <<>>
    /\ inv = <<[code |-> CodeTable[1], name |-> "A", qty |-> 0]>>
    /\ moves \in LedgerFiles
    /\ sess = [shipping_items |-> <<>>, shipping_products |-> <<>>]
    /\ net = [t \in OrderIds |-> ZeroMap]
    /\ clock = 1
    /\ trip = NoTrip
    /\ req \in [1..MaxReq -> AddReqs]

\* add: row = {'MoveID': self._next_id(), ...}
movement_next_id ==
    \E r \in DOMAIN req :
        /\ req[r].pc = "next_id"
        /\ req' = [req EXCEPT ![r].pc = "concat", ![r].id = MovementNextId(moves)]
        /\ UNCHANGED <<orders, inv, moves, sess, net, clock, trip>>

\* add: self.df = pd.concat([self.df, pd.DataFrame([row])]); self.save()
movement_concat ==
    \E r \in DOMAIN req :
        /\ req[r].pc = "concat"
        /\ moves' = Append(moves, [id |-> req[r].id, code |-> inv[1].code,
                                   name |-> inv[1].name, delta |-> req[r].delta,
                                   mtype |-> "Manual", ref |-> "MANUAL"])
        /\ req' = [req EXCEPT ![r].pc = "done"]
        /\ UNCHANGED <<orders, inv, sess, net, clock, trip>>

NextAppend ==
    \/ movement_next_id
    \/ movement_concat

SpecAppend == InitAppend /\ [][NextAppend]_vars

----------------------------------------------------------------------------
(* DataStore.update_status on its own: one order in any status with any time
   stamps of the past, a clock that is later, and one call. *)

MaxTime == 2     \* latest time stamp an order carries at the start

Stamps == 0..MaxTime     \* 0: the column is empty

InitStamp ==
    /\ \E st \in Statuses, pn \in {"", "A"}, u \in Stamps \ {0}, sh, de, re \in Stamps :
          orders = [t \in OrderIds |->
                       [status |-> st, pname |-> pn, items |-> <<>>,
                        updAt |-> u, shipAt |-> sh, delAt |-> de, retAt |-> re]]
    /\ inv = <<[code |-> CodeTable[1], name |-> "A", qty |-> 0]>>
    /\ moves = <<>>
    /\ sess = [shipping_items |-> <<>>, shipping_products |-> <<>>]
    /\ net = [t \in OrderIds |-> ZeroMap]
    /\ clock = MaxTime + 1
    /\ trip = NoTrip
    /\ \E t \in TxnInputs, n \in Statuses :
          req = <<[kind |-> "transition", pc |-> "call", txn |-> t, new |-> n,
                   old |-> "", res |-> ""]>>

\* ok, ret = store.update_status(txn, new_status)
update_status_call ==
    LET r == update_status(orders, inv, moves, req[1].txn, req[1].new, clock)
    IN /\ req[1].pc = "call"
       /\ orders' = r.orders
       /\ inv' = r.inv
       /\ moves' = r.moves
       /\ req' = [req EXCEPT ![1].pc = "done",
                             ![1].old = r.old,
                             ![1].res = IF ~r.ok THEN "missing"
                                        ELSE IF r.raised THEN "swallowed" ELSE "ok"]
       /\ UNCHANGED <<sess, net, clock, trip>>

NextStamp == update_status_call

SpecStamp == InitStamp /\ [][NextStamp]_vars

----------------------------------------------------------------------------
(* DataStore.upsert_row on the threads of the server.  Here `orders` is
   DataStore.df as the sequence of its rows, each with its index value txn,
   so that two rows of one id can be told apart; the statements of
   upsert_row are steps. *)

UpsertReqs ==
    {[kind |-> "upsert", pc |-> "exists", txn |-> t, status |-> st, found |-> FALSE,
      res |-> ""] :
        t \in TxnInputs, st \in {STATUS_READY, STATUS_PROCESSING}}

InitUpsert ==
    /\ orders \in {<<>>} \cup
                  {<<[txn |-> t, row |-> [BlankRow EXCEPT !.status = st]]>> :
                      t \in OrderIds, st \in Statuses}
    /\ inv = <<>>
    /\ moves = <<>>
    /\ sess = [shipping_items |-> <<>>, shipping_products |-> <<>>]
    /\ net = [t \in OrderIds |-> ZeroMap]
    /\ clock = 1
    /\ trip = NoTrip
    /\ req \in [1..MaxReq -> UpsertReqs]

\* upsert_row: the id check, then `if self.exists(txn)`
upsert_row_exists ==
    \E r \in DOMAIN req :
        /\ req[r].pc = "exists"
        /\ req' = IF ~IsTxn(req[r].txn)
                  THEN [req EXCEPT ![r].pc = "done", ![r].res = "invalid"]
                  ELSE [req EXCEPT ![r].pc = "write",
                                   ![r].found = \E i \in 1..Len(orders) :
                                                    orders[i].txn = req[r].txn]
        /\ UNCHANGED <<orders, inv, moves, sess, net, clock, trip>>

\* upsert_row: self.df.at[txn, k] = v for every column, or
\* self.df = pd.concat([self.df, new_df])
upsert_row_write ==
    \E r \in DOMAIN req :
        LET row == [BlankRow EXCEPT !.status = req[r].status]
        IN /\ req[r].pc = "write"
           /\ orders' = IF req[r].found
                        THEN [i \in 1..Len(orders) |->
                                 IF orders[i].txn = req[r].txn
                                 THEN [txn |-> req[r].txn, row |-> row]
                                 ELSE orders[i]]
                        ELSE Append(orders, [txn |-> req[r].txn, row |-> row])
           /\ req' = [req EXCEPT ![r].pc = "done",
                                 ![r].res = IF req[r].found THEN "updated" ELSE "added"]
           /\ UNCHANGED <<inv, moves, sess, net, clock, trip>>

NextUpsert ==
    \/ upsert_row_exists
    \/ upsert_row_write

SpecUpsert == InitUpsert /\ [][NextUpsert]_vars

----------------------------------------------------------------------------
(* products_add and inventory_add on the threads of the server: the code is
   chosen (next_code) or looked up (get_by_code) in one statement and the
   row is appended (add_item) in a later one. *)

ProductsAddReqs ==
    {[kind |-> "products_add", pc |-> "next_code", code |-> "", name |-> nm] :
        nm \in Names}

InventoryAddReqs ==
    {[kind |-> "inventory_add", pc |-> "get_by_code", code |-> c, name |-> nm] :
        c \in {CodeTable[1], CodeTable[2]}, nm \in Names}

InitCodes ==
    /\ orders = <<>>
    /\ inv \in {<<>>} \cup {<<[code |-> CodeTable[1], name |-> nm, qty |-> 0]>> : nm \in Names}
    /\ moves = <<>>
    /\ sess = [shipping_items |-> <<>>, shipping_products |-> <<>>]
    /\ net = [t \in OrderIds |-> ZeroMap]
    /\ clock = 1
    /\ trip = NoTrip
    /\ req \in [1..MaxReq -> ProductsAddReqs \cup InventoryAddReqs]

\* products_add: row = {'Product Code': inventory.next_code(), ...}
products_add_next_code ==
    \E r \in DOMAIN req :
        /\ req[r].pc = "next_code"
        /\ req' = [req EXCEPT ![r].pc = "add_item",
                              ![r].code = FormatCode(NextCodeNumber(inv))]
        /\ UNCHANGED <<orders, inv, moves, sess, net, clock, trip>>

\* inventory_add: item = inventory.get_by_code(code); if not item: ...
inventory_add_get_by_code ==
    \E r \in DOMAIN req :
        /\ req[r].pc = "get_by_code"
        /\ req' = [req EXCEPT ![r].pc = IF HasCode(inv, req[r].code)
                                        THEN "done" ELSE "add_item"]
        /\ UNCHANGED <<orders, inv, moves, sess, net, clock, trip>>

\* inventory.add_item(row) of either handler
add_item_call ==
    \E r \in DOMAIN req :
        /\ req[r].pc = "add_item"
        /\ inv' = AddItem(inv, req[r].code, req[r].name, 0)
        /\ req' = [req EXCEPT ![r].pc = "done"]
        /\ UNCHANGED <<orders, moves, sess, net, clock, trip>>

NextCodes ==
    \/ products_add_next_code
    \/ inventory_add_get_by_code
    \/ add_item_call

SpecCodes == InitCodes /\ [][NextCodes]_vars

----------------------------------------------------------------------------
(* The reports: /stats and /daily_analysis.

   A timestamp is a number of half days: 2 * d is midnight of day d,
   2 * d + 1 a later moment of day d, 0 an empty column (NaT).  A session
   key or a query argument that is absent is -1. *)

MaxDay == 2
MaxPrice == 3

ReportIds == <<"100001", "100002">>

Times == 2..(2 * MaxDay + 1)

Midnight(d) == 2 * d

\* The cost columns products_add writes for the two catalog rows
CostRows ==
    <<[mpu |-> 1, fabric_price |-> 2, sew |-> 1, access |-> 0, extra |-> 0],
      [mpu |-> 0, fabric_price |-> 0, sew |-> 1, access |-> 0, extra |-> 1]>>

ReportSku(n, name) ==
    [code |-> CodeTable[n], name |-> name, qty |-> 0,
     mpu |-> CostRows[n].mpu, fabric_price |-> CostRows[n].fabric_price,
     sew |-> CostRows[n].sew, access |-> CostRows[n].access,
     extra |-> CostRows[n].extra]

\* Catalogs after products_add (twice at most) and inventory_edit renames
ReportCatalogs ==
    {<<ReportSku(1, n)>> : n \in Names}
        \cup {<<ReportSku(1, n), ReportSku(2, m)>> : n \in Names, m \in Names}

\* The Items column of an order: empty, or one item.
ReportItems ==
    {<<>>} \cup {<<[code |-> CodeTable[1], name |-> n, qty |-> q]>> :
                    n \in {"", "A"}, q \in 1..MaxQty}

\* Order rows: Delivered At is stamped on delivery, after creation.
ReportRows ==
    {[status |-> st, pname |-> "A", items |-> its, price |-> 1,
      created |-> c, delAt |-> d] :
        st \in {STATUS_SHIPPING, STATUS_DELIVERED}, its \in ReportItems,
        c \in Times \cup {0}, d \in Times \cup {0}}

ReportRowOk(r) ==
    IF r.status = STATUS_DELIVERED THEN r.delAt # 0 /\ r.delAt >= r.created
    ELSE r.delAt = 0

ReportSessions ==
    {[stats_auth |-> a, shipping_fee |-> v, ads_cost |-> v, other_cost |-> v] :
        a \in BOOLEAN, v \in {-1, 1}}

NoOut == [page |-> "none"]

StatsReqs ==
    {[kind |-> "stats", pc |-> "call", code |-> c, from |-> f, to |-> t,
      fee |-> a, ads |-> -1, other |-> -1, offset |-> 0, out |-> NoOut] :
        c \in BOOLEAN, f \in 0..MaxDay, t \in 0..MaxDay, a \in {-1, 2}}

DailyReqs ==
    {[kind |-> "daily", pc |-> "call", code |-> FALSE, from |-> f, to |-> t,
      fee |-> 0, ads |-> 0, other |-> 0, offset |-> o, out |-> NoOut] :
        f \in 0..MaxDay, t \in 0..MaxDay, o \in {0, 1}}

\* _cost_per_unit(prod_name): the first catalog row with that Product Name
cost_per_unit(iv, prod_name) ==
    LET hits == {i \in 1..Len(iv) : iv[i].name = prod_name}
    IN IF hits = {} THEN 0
       ELSE LET r == iv[CHOOSE i \in hits : \A j \in hits : i <= j]
            IN (r.mpu * r.fabric_price) + r.sew + r.access + r.extra

\* cogs of one row: sum of _cost_per_unit(it['name']) * q over its items
RowCogs(iv, row) ==
    LET items == parse_items_from_row(iv, row)
    IN SeqSum([i \in 1..Len(items) |-> cost_per_unit(iv, items[i].name) * items[i].qty])

\* Sum of f over the orders of a selection
SumRows(sel, f) ==
    SeqSum([i \in 1..Len(ReportIds) |-> IF ReportIds[i] \in sel THEN f[ReportIds[i]] ELSE 0])

\* A selection that takes every row, whatever its status.
status_rows_any(od, d, st) == d

\* d[d['Status'] == status]
StatusRows(od, d, st) == {t \in d : od[t].status = st}

\* stats: d = store.df filtered by 'Time and Date' >= start and <= end,
\* start and end the midnights of the two dates
StatsRows(od, from, to) ==
    {t \in DOMAIN od :
        /\ from # 0 => (od[t].created # 0 /\ od[t].created >= Midnight(from))
        /\ to # 0 => (od[t].created # 0 /\ od[t].created <= Midnight(to))}

\* _count_by_datecol(base_all, STATUS_DELIVERED, 'Delivered At')
CountDelivered(od, from, to) ==
    Cardinality({t \in DOMAIN od :
        /\ od[t].status = STATUS_DELIVERED /\ od[t].delAt # 0
        /\ from # 0 => od[t].delAt >= Midnight(from)
        /\ to # 0 => od[t].delAt < Midnight(to + 1)})

\* stats(): the PIN gate, the extra costs kept in the session, the totals
stats_do(od, iv, ss, rq) ==
    IF ~ss.stats_auth /\ ~rq.code THEN [sess |-> ss, out |-> [page |-> "pin"]]
    ELSE
      LET shipping_fee == IF rq.fee # -1 THEN rq.fee
                          ELSE IF ss.shipping_fee \notin {-1, 0} THEN ss.shipping_fee
                          ELSE 4000
          ads_cost == IF rq.ads # -1 THEN rq.ads
                      ELSE IF ss.ads_cost \notin {-1, 0} THEN ss.ads_cost ELSE 0
          other_cost == IF rq.other # -1 THEN rq.other
                        ELSE IF ss.other_cost \notin {-1, 0} THEN ss.other_cost ELSE 0
          d == StatsRows(od, rq.from, rq.to)
          delivered == StatusRows(od, d, STATUS_DELIVERED)
          Price == [t \in DOMAIN od |-> od[t].price]
          Cogs == [t \in DOMAIN od |-> RowCogs(iv, od[t])]
          rev == SumRows(delivered, Price)
          cogs_total == SumRows(delivered, Cogs)
          shipping_total == Cardinality(delivered) * shipping_fee
      IN [sess |-> [stats_auth |-> TRUE, shipping_fee |-> shipping_fee,
                    ads_cost |-> ads_cost, other_cost |-> other_cost],
          out |-> [page |-> "stats", rows |-> delivered,
                   revenue |-> rev, cogs_total |-> cogs_total,
                   cnt_delivered |-> CountDelivered(od, rq.from, rq.to),
                   shipping_fee |-> shipping_fee, ads_cost |-> ads_cost,
                   other_cost |-> other_cost, shipping_total |-> shipping_total,
                   net_profit |-> rev - cogs_total - shipping_total - ads_cost - other_cost]]

\* daily_analysis(): orders created in the range moved back by offset days,
\* of which those delivered within the range itself
daily_analysis_do(od, iv, ss, rq) ==
    IF rq.from = 0 \/ rq.to = 0 THEN [sess |-> ss, out |-> [page |-> "form"]]
    ELSE
      LET base_df == {t \in DOMAIN od :
                         /\ od[t].created # 0
                         /\ od[t].created >= Midnight(rq.from - rq.offset)
                         /\ od[t].created < Midnight(rq.to - rq.offset + 1)}
          delivered_in_invoice ==
              {t \in StatusRows(od, base_df, STATUS_DELIVERED) :
                               /\ od[t].delAt # 0
                               /\ od[t].delAt >= Midnight(rq.from)
                               /\ od[t].delAt < Midnight(rq.to + 1)}
          Price == [t \in DOMAIN od |-> od[t].price]
          Cogs == [t \in DOMAIN od |-> RowCogs(iv, od[t])]
          revenue == SumRows(delivered_in_invoice, Price)
          cogs_total == SumRows(delivered_in_invoice, Cogs)
          shipping_total == Cardinality(delivered_in_invoice) * rq.fee
      IN [sess |-> ss,
          out |-> [page |-> "daily", rows |-> delivered_in_invoice,
                   revenue |-> revenue, cogs_total |-> cogs_total,
                   cnt_delivered |-> Cardinality(delivered_in_invoice),
                   shipping_fee |-> rq.fee, ads_cost |-> rq.ads,
                   other_cost |-> rq.other, shipping_total |-> shipping_total,
                   net_profit |-> revenue - cogs_total - shipping_total - rq.ads - rq.other]]

InitReport ==
    /\ \E r \in {x \in ReportRows : ReportRowOk(x)} :
          orders = [t \in {ReportIds[1], ReportIds[2]} |->
                       IF t = ReportIds[1] THEN r
                       ELSE [status |-> STATUS_DELIVERED, pname |-> "B", items |-> <<>>,
                             price |-> 2, created |-> Midnight(1), delAt |-> Midnight(1) + 1]]
    /\ inv \in ReportCatalogs
    /\ moves = <<>>
    /\ sess \in ReportSessions
    /\ net = [t \in OrderIds |-> ZeroMap]
    /\ clock = 1
    /\ trip = NoTrip
    /\ \E rq \in StatsReqs \cup DailyReqs : req = <<rq>>

\* GET or POST /stats
stats ==
    LET r == stats_do(orders, inv, sess, req[1])
    IN /\ req[1].kind = "stats"
       /\ req[1].pc = "call"
       /\ sess' = r.sess
       /\ req' = [req EXCEPT ![1].pc = "done", ![1].out = r.out]
       /\ UNCHANGED <<orders, inv, moves, net, clock, trip>>

\* GET /daily_analysis
daily_analysis ==
    LET r == daily_analysis_do(orders, inv, sess, req[1])
    IN /\ req[1].kind = "daily"
       /\ req[1].pc = "call"
       /\ sess' = r.sess
       /\ req' = [req EXCEPT ![1].pc = "done", ![1].out = r.out]
       /\ UNCHANGED <<orders, inv, moves, net, clock, trip>>

NextReport == stats \/ daily_analysis

SpecReport == InitReport /\ [][NextReport]_vars

----------------------------------------------------------------------------
(* The pending amount by product: the prod_amt_shipping loop of /stats and
   /daily_analysis, in Python floats.

   A float is held as its binary expansion: a sequence of IntW + FracW bits,
   bit i of weight 2^(IntW - i).  Every float the loop produces from the
   bounded inputs fits this window exactly.  Division and multiplication
   round to DoubleDigits significant bits, ties to even, as IEEE 754 binary64
   does. *)

DoubleDigits == 53
IntW == 8
FracW == 60
MaxShareItems == 3

FxW == IntW + FracW

FxZero == SubSeq([i \in 1..FxW |-> 0], 1, FxW)

\* float(n) of a small integer
RECURSIVE Pow2(_)
Pow2(n) == IF n = 0 THEN 1 ELSE 2 * Pow2(n - 1)

FromInt(n) ==
    SubSeq([i \in 1..FxW |-> IF i <= IntW THEN (n \div Pow2(IntW - i)) % 2 ELSE 0], 1, FxW)

\* An expansion written out bit by bit
Bits(x) == SubSeq(x, 1, FxW)

\* 2^k mod t
RECURSIVE Pow2Mod(_, _)
Pow2Mod(k, t) ==
    IF k = 0 THEN 1 % t
    ELSE IF k % 2 = 0 THEN LET h == Pow2Mod(k \div 2, t) IN (h * h) % t
    ELSE (2 * Pow2Mod(k - 1, t)) % t

\* What is left of p after the first k fractional bits of p / t
DivRem(p, t, k) == ((p % t) * Pow2Mod(k, t)) % t

\* The exact quotient p / t, cut after FracW fractional bits
DivBits(p, t) ==
    Bits([i \in 1..FxW |->
            IF i <= IntW THEN FromInt(p \div t)[i]
            ELSE IF 2 * DivRem(p, t, i - IntW - 1) >= t THEN 1 ELSE 0])

\* The exact sum of two expansions: the carry into bit i comes from the
\* nearest lower pair of ones that every pair in between passes on.
AddBits(x, y) ==
    Bits([i \in 1..FxW |->
            LET carry == IF \E j \in (i + 1)..FxW :
                                /\ x[j] = 1 /\ y[j] = 1
                                /\ \A m \in (i + 1)..(j - 1) : x[m] + y[m] >= 1
                         THEN 1 ELSE 0
            IN (x[i] + y[i] + carry) % 2])

\* 2 * x
Twice(x) == Bits([i \in 1..FxW |-> IF i < FxW THEN x[i + 1] ELSE 0])

\* The exact product of an expansion and a small integer
RECURSIVE MulBits(_, _)
MulBits(x, q) ==
    IF q = 0 THEN FxZero
    ELSE LET dbl == Twice(MulBits(x, q \div 2))
         IN IF q % 2 = 1 THEN AddBits(dbl, x) ELSE dbl

\* x + 2^(IntW - k)
AddOneAt(x, k) ==
    LET j == CHOOSE j \in 1..k : x[j] = 0 /\ \A m \in (j + 1)..k : x[m] = 1
    IN Bits([i \in 1..FxW |-> IF i = j THEN 1 ELSE IF i > j /\ i <= k THEN 0 ELSE x[i]])

\* Rounding of an exact result to DoubleDigits significant bits, ties to even;
\* sticky tells that the exact result has more bits below the window.
RoundDouble(x, sticky) ==
    IF \A i \in 1..FxW : x[i] = 0 THEN FxZero
    ELSE LET h == CHOOSE i \in 1..FxW : x[i] = 1 /\ \A m \in 1..(i - 1) : x[m] = 0
             last == h + DoubleDigits - 1
         IN IF last >= FxW THEN x
            ELSE LET kept == Bits([i \in 1..FxW |-> IF i <= last THEN x[i] ELSE 0])
                     guard == x[last + 1]
                     below == sticky \/ \E i \in (last + 2)..FxW : x[i] = 1
                 IN IF guard = 1 /\ (below \/ x[last] = 1)
                    THEN AddOneAt(kept, last) ELSE kept

FloatDiv(p, t) == RoundDouble(DivBits(p, t), DivRem(p, t, FracW) # 0)

FloatMul(x, q) == RoundDouble(MulBits(x, q), FALSE)

FloatAdd(x, y) == RoundDouble(AddBits(x, y), FALSE)

\* total_items_qty = sum(int(it.get('qty', 1) or 1) for it in items if it.get('name'))
TotalItemsQty(items) == SeqSum([i \in 1..Len(items) |-> items[i].qty])

\* share = (order_price_f / total_items_qty) * q
Share(price, items, i) == FloatMul(FloatDiv(price, TotalItemsQty(items)), items[i].qty)

\* prod_amt_shipping[nm] = prod_amt_shipping.get(nm, 0.0) + float(share or 0)
RECURSIVE ProdAmtShipping(_, _, _, _)
ProdAmtShipping(price, items, i, amt) ==
    IF i > Len(items) THEN amt
    ELSE ProdAmtShipping(price, items, i + 1,
            [amt EXCEPT ![items[i].name] = FloatAdd(@, Share(price, items, i))])

\* Item lists of two or more items
ShareItems ==
    UNION {[1..n -> [code : {""}, name : Names, qty : 1..MaxQty]] : n \in 2..MaxShareItems}

InitShare ==
    /\ \E its \in ShareItems, pr \in 1..MaxPrice :
          orders = [t \in {ReportIds[1]} |->
                       [status |-> STATUS_SHIPPING, pname |-> MultiName, items |-> its,
                        price |-> pr, created |-> Midnight(1), delAt |-> 0]]
    /\ inv = <<>>
    /\ moves = <<>>
    /\ sess = [stats_auth |-> TRUE, shipping_fee |-> -1, ads_cost |-> -1, other_cost |-> -1]
    /\ net = [t \in OrderIds |-> ZeroMap]
    /\ clock = 1
    /\ trip = NoTrip
    /\ req = <<[kind |-> "stats", pc |-> "call", out |-> NoOut]>>

\* The loop over the items of the Shipping order
stats_prod_amt_shipping ==
    LET row == orders[ReportIds[1]]
        items == parse_items_from_row(inv, row)
    IN /\ req[1].pc = "call"
       /\ req' = [req EXCEPT ![1].pc = "done",
                             ![1].out = [page |-> "stats",
                                         prod_amt_shipping |->
                                             ProdAmtShipping(row.price, items, 1,
                                                             [n \in Names |-> FxZero])]]
       /\ UNCHANGED <<orders, inv, moves, sess, net, clock, trip>>

NextShare == stats_prod_amt_shipping

SpecShare == InitShare /\ [][NextShare]_vars

----------------------------------------------------------------------------
(* The passcode gate: the handlers behind login_required, and the ones
   registered without it *)

PASSCODE == "1977"

Passcodes == {PASSCODE, "0000"}

InitAuth ==
    /\ orders = <<>>
    /\ inv = <<>>
    /\ moves = <<>>
    /\ sess = [shipping_items |-> <<>>, shipping_products |-> <<>>, auth |-> FALSE]
    /\ net = [t \in OrderIds |-> ZeroMap]
    /\ clock = 1
    /\ trip = NoTrip
    /\ req = <<>>

\* POST /login
login ==
    \E code \in Passcodes :
        /\ sess' = IF code = PASSCODE THEN [sess EXCEPT !.auth = TRUE] ELSE sess
        /\ UNCHANGED <<orders, inv, moves, net, clock, trip, req>>

\* GET /logout: session.clear()
logout ==
    /\ sess' = [shipping_items |-> <<>>, shipping_products |-> <<>>, auth |-> FALSE]
    /\ UNCHANGED <<orders, inv, moves, net, clock, trip, req>>

\* login_required: the handler runs only when session['auth'] is set
login_required == sess.auth

NextAuth ==
    \/ login
    \/ logout
    \/ orders_import_text
    \/ login_required /\ upload_pdf
    \/ login_required /\ processing_to_shipping
    \/ login_required /\ mark_returned
    \/ login_required /\ delivered_bulk
    \/ login_required /\ delete
    \/ login_required /\ products_add
    \/ login_required /\ inventory_add
    \/ login_required /\ inventory_edit
    \/ login_required /\ products_delete
    \/ login_required /\ inventory_adjust_bulk
    \/ login_required /\ inventory_product
    \/ login_required /\ add_product
    \/ login_required /\ remove_product
    \/ login_required /\ clear_products
    \/ login_required /\ apply_name
    \/ login_required /\ move_to_shipping

SpecAuth == InitAuth /\ [][NextAuth]_vars

----------------------------------------------------------------------------
(* /upload_invoice: one line of the invoice, read as (txn, price_val) *)

\* Prices in thousands and one that is not
OrderPrices == {1000, 2000}

InvoicePrices == OrderPrices \cup {1500}

\* str(price_val).endswith("000"), for a price of four digits or more
EndsWith000(p) == p % 1000 = 0

InvoiceRows ==
    {[status |-> st, pname |-> "A", items |-> <<>>, price |-> p,
      updAt |-> 1, shipAt |-> sh, delAt |-> de, retAt |-> re] :
        st \in Statuses, p \in OrderPrices, sh \in Stamps, de \in Stamps, re \in Stamps}

InitInvoice ==
    /\ \/ orders = <<>>
       \/ \E r \in InvoiceRows : orders = [t \in OrderIds |-> r]
    /\ inv = <<[code |-> CodeTable[1], name |-> "A", qty |-> 0]>>
    /\ moves = <<>>
    /\ sess = [shipping_items |-> <<>>, shipping_products |-> <<>>]
    /\ net = [t \in OrderIds |-> ZeroMap]
    /\ clock = MaxTime + 1
    /\ trip = NoTrip
    /\ \E t \in TxnInputs, p \in InvoicePrices :
          req = <<[kind |-> "invoice", pc |-> "call", txn |-> t, price_val |-> p, res |-> ""]>>

\* The body of the loop for one line: a line without an id of six digits or
\* with a price that does not end in 000 is passed over.
upload_invoice_line(od, iv, mv, txn, price_val, ts) ==
    IF ~IsTxn(txn) \/ ~EndsWith000(price_val)
    THEN [orders |-> od, inv |-> iv, moves |-> mv, res |-> "ignored"]
    ELSE IF txn \in DOMAIN od
    THEN IF od[txn].price = price_val
         THEN LET r == update_status(od, iv, mv, txn, STATUS_DELIVERED, ts)
              IN [orders |-> r.orders, inv |-> r.inv, moves |-> r.moves, res |-> "updated"]
         ELSE [orders |-> od, inv |-> iv, moves |-> mv, res |-> "skipped"]
    ELSE [orders |-> od, inv |-> iv, moves |-> mv, res |-> "skipped"]

\* POST /upload_invoice
upload_invoice ==
    LET r == upload_invoice_line(orders, inv, moves, req[1].txn, req[1].price_val, clock)
    IN /\ req[1].pc = "call"
       /\ orders' = r.orders
       /\ inv' = r.inv
       /\ moves' = r.moves
       /\ req' = [req EXCEPT ![1].pc = "done", ![1].res = r.res]
       /\ UNCHANGED <<sess, net, clock, trip>>

NextInvoice == upload_invoice

SpecInvoice == InitInvoice /\ [][NextInvoice]_vars

----------------------------------------------------------------------------
(* /edit/<txn>: the form posts every column of the row, Status and the typed
   time stamps among them *)

\* The typed time stamp of a status is set
TypedStampSet(row) ==
    /\ row.status = STATUS_SHIPPING => row.shipAt # 0
    /\ row.status = STATUS_DELIVERED => row.delAt # 0
    /\ row.status = STATUS_RETURNED => row.retAt # 0

\* Rows as update_status leaves them
EditRows ==
    {r \in [status : Statuses, pname : {"A"}, items : {<<>>}, updAt : {1},
            shipAt : Stamps, delAt : Stamps, retAt : Stamps] : TypedStampSet(r)}

\* What the operator leaves in the fields of the form ("" for an empty Status)
EditForms ==
    [txn : TxnInputs, status : Statuses \cup {""}, pname : {"A"}, updAt : {1},
     shipAt : {0, MaxTime}, delAt : {0, MaxTime}, retAt : {0, MaxTime}]

InitEdit ==
    /\ \E r \in EditRows : orders = [t \in OrderIds |-> r]
    /\ inv = <<>>
    /\ moves = <<>>
    /\ sess = [shipping_items |-> <<>>, shipping_products |-> <<>>]
    /\ net = [t \in OrderIds |-> ZeroMap]
    /\ clock = MaxTime + 1
    /\ trip = NoTrip
    /\ \E t \in TxnInputs, f \in EditForms :
          req = <<[kind |-> "edit", pc |-> "call", txn |-> t, form |-> f, res |-> ""]>>

\* POST /edit/<txn>: abort(404) for an unknown txn, else upsert_row(new_vals)
edit ==
    LET f == req[1].form
        row == [status |-> IF f.status = "" THEN STATUS_READY ELSE f.status,
                pname |-> f.pname, items |-> <<>>, updAt |-> f.updAt,
                shipAt |-> f.shipAt, delAt |-> f.delAt, retAt |-> f.retAt]
        r == upsert_row(orders, f.txn, row)
    IN /\ req[1].pc = "call"
       /\ IF req[1].txn \notin DOMAIN orders
          THEN /\ orders' = orders
               /\ req' = [req EXCEPT ![1].pc = "done", ![1].res = "404"]
          ELSE /\ orders' = r.orders
               /\ req' = [req EXCEPT ![1].pc = "done",
                                     ![1].res = IF r.ok THEN "ok" ELSE "err"]
       /\ UNCHANGED <<inv, moves, sess, net, clock, trip>>

NextEdit == edit

SpecEdit == InitEdit /\ [][NextEdit]_vars

----------------------------------------------------------------------------
(* The life of the catalog: additions and deletions, with req as the list of
   the codes next_code has given out *)

MaxAdds == 3

InitGen ==
    /\ orders = <<>>
    /\ inv = <<>>
    /\ moves = <<>>
    /\ sess = [shipping_items |-> <<>>, shipping_products |-> <<>>]
    /\ net = [t \in OrderIds |-> ZeroMap]
    /\ clock = 1
    /\ trip = NoTrip
    /\ req = <<>>

\* POST /products/add: the row gets inventory.next_code()
products_add_gen ==
    \E nm \in Names, q \in Qtys :
        LET code == FormatCode(NextCodeNumber(inv))
        IN /\ Len(req) < MaxAdds
           /\ inv' = AddItem(inv, code, nm, q)
           /\ req' = Append(req, [kind |-> "products_add", pc |-> "done",
                                  code |-> code, name |-> nm])
           /\ UNCHANGED <<orders, moves, sess, net, clock, trip>>

NextGen == products_add_gen \/ products_delete

SpecGen == InitGen /\ [][NextGen]_vars

----------------------------------------------------------------------------
(* The handlers that remove orders from the order store *)

\* store.df[store.df["Status"] != st]
DropStatus(od, st) == [t \in {u \in DOMAIN od : od[u].status # st} |-> od[t]]

InitDelete ==
    /\ \E ids \in SUBSET OrderIds : orders \in [ids -> EditRows]
    /\ inv = <<>>
    /\ moves = <<>>
    /\ sess = [shipping_items |-> <<>>, shipping_products |-> <<>>]
    /\ net = [t \in OrderIds |-> ZeroMap]
    /\ clock = MaxTime + 1
    /\ trip = NoTrip
    /\ req = <<>>

\* POST /orders/processing/delete: refused for an order in Shipping
processing_delete ==
    \E txn \in TxnInputs :
        LET st == IF txn \in DOMAIN orders THEN orders[txn].status ELSE ""
        IN /\ orders' = IF st = STATUS_SHIPPING
                        THEN orders
                        ELSE IF txn \in DOMAIN orders
                             THEN [t \in DOMAIN orders \ {txn} |-> orders[t]]
                             ELSE orders
           /\ NoTripStep
           /\ UNCHANGED <<inv, moves, sess, net, clock, req>>

\* POST /orders/processing/delete_all
processing_delete_all ==
    /\ orders' = DropStatus(orders, STATUS_PROCESSING)
    /\ NoTripStep
    /\ UNCHANGED <<inv, moves, sess, net, clock, req>>

\* GET /delete-ready-all
delete_ready_all ==
    /\ orders' = DropStatus(orders, STATUS_READY)
    /\ NoTripStep
    /\ UNCHANGED <<inv, moves, sess, net, clock, req>>

NextDelete ==
    \/ processing_delete
    \/ delete
    \/ processing_delete_all
    \/ delete_ready_all

SpecDelete == InitDelete /\ [][NextDelete]_vars

----------------------------------------------------------------------------
(* Properties *)

\* Order t is in status a before the step and in status b after it.
Went(t, a, b) ==
    /\ t \in DOMAIN orders
    /\ t \in DOMAIN orders'
    /\ orders[t].status = a
    /\ orders'[t].status = b

\* Every item names a row of the catalog.
AllResolve(iv, items) ==
    \A j \in 1..Len(items) : ResolveIndex(iv, ItemKey(items[j])) # 0

\* The pieces of catalog row i that the items ask for.
Pieces(iv, items, i) ==
    SeqSum([j \in 1..Len(items) |->
                IF ResolveIndex(iv, ItemKey(items[j])) = i THEN items[j].qty ELSE 0])

\* The step appends one movement per item, of type mtype, delta sign * qty
\* and ref txn, and adds sign * qty to the quantity of each item's row.
StockMoved(items, sign, mtype, txn) ==
    /\ Len(inv') = Len(inv)
    /\ \A i \in 1..Len(inv) : inv'[i].qty = inv[i].qty + sign * Pieces(inv, items, i)
    /\ Len(moves') = Len(moves) + Len(items)
    /\ \A j \in 1..Len(items) :
          /\ moves'[Len(moves) + j].delta = sign * items[j].qty
          /\ moves'[Len(moves) + j].mtype = mtype
          /\ moves'[Len(moves) + j].ref = txn

\* C1: for every SKU of the catalog, its quantity is the sum of the deltas
\* of the ledger's movements for its code.
C1_LedgerConsistent ==
    \A i \in 1..Len(inv) : inv[i].qty = LedgerSum(moves, inv[i].code)

\* C2: a change Ready -> Shipping of an order whose items all name catalog
\* rows takes item.qty off each item's row and appends one Withdraw movement
\* of -item.qty with ref = the order id per item.
C2_ReadyToShippingWithdraws ==
    [][\A t \in OrderIds :
          (/\ Went(t, STATUS_READY, STATUS_SHIPPING)
           /\ parse_items_from_row(inv, orders'[t]) # <<>>
           /\ AllResolve(inv, parse_items_from_row(inv, orders'[t])))
          => StockMoved(parse_items_from_row(inv, orders'[t]), -1, "Withdraw", t)]_vars

\* C3: a change Shipping -> Returned of an order whose items all name
\* catalog rows adds item.qty to each item's row and appends one Return
\* movement of +item.qty with ref = the order id per item.
C3_ShippingToReturnedRestores ==
    [][\A t \in OrderIds :
          (/\ Went(t, STATUS_SHIPPING, STATUS_RETURNED)
           /\ parse_items_from_row(inv, orders'[t]) # <<>>
           /\ AllResolve(inv, parse_items_from_row(inv, orders'[t])))
          => StockMoved(parse_items_from_row(inv, orders'[t]), 1, "Return", t)]_vars

\* A step of a handler that sets an order's status, or any step after which
\* an order is in another status than before (or is new).
StatusStep ==
    \/ processing_to_shipping
    \/ mark_returned
    \/ delivered_bulk
    \/ move_to_shipping
    \/ upload_pdf
    \/ orders_import_text
    \/ \E t \in DOMAIN orders' : t \notin DOMAIN orders \/ orders'[t].status # orders[t].status

\* C4: a status change other than Ready -> Shipping and Shipping -> Returned
\* leaves every quantity of the catalog and the whole ledger as they were.
C4_OtherTransitionsKeepStock ==
    [][(/\ StatusStep
        /\ ~\E t \in OrderIds : \/ Went(t, STATUS_READY, STATUS_SHIPPING)
                                \/ Went(t, STATUS_SHIPPING, STATUS_RETURNED))
       => (inv' = inv /\ moves' = moves)]_vars

\* C4 witness: an order that was sent out and then delivered, with items
\* that name rows of the catalog.
C4_Witness ==
    \E t \in DOMAIN orders :
        /\ orders[t].status = STATUS_DELIVERED
        /\ orders[t].shipAt # 0
        /\ orders[t].delAt # 0
        /\ parse_items_from_row(inv, orders[t]) # <<>>
        /\ AllResolve(inv, parse_items_from_row(inv, orders[t]))

\* C5: replacing the items of an order that is and stays Shipping (all
\* items, old and new, naming catalog rows) changes
\* the stock held for the order, per item key, by exactly the old quantity
\* minus the new one, so that the stock withdrawn for it is what the current
\* list says.
C5_EditsReconcile ==
    [][\A t \in OrderIds :
          (/\ Went(t, STATUS_SHIPPING, STATUS_SHIPPING)
           /\ orders'[t].items # orders[t].items
           /\ AllResolve(inv, parse_items_from_row(inv, orders[t]))
           /\ AllResolve(inv, parse_items_from_row(inv, orders'[t])))
          => \A k \in Keys :
                net'[t][k] - net[t][k] =
                    MapItems(parse_items_from_row(inv, orders[t]))[k]
                    - MapItems(parse_items_from_row(inv, orders'[t]))[k]]_vars

C10_UnknownKeyNotFound ==
    \A key \in AdjustKeys, q \in AdjustQtys :
        ResolveIndex(inv, key) = 0 =>
            /\ inventory_adjust_bulk_do(inv, moves, key, q).res = "NotFound"
            /\ inventory_adjust_bulk_do(inv, moves, key, q).inv = inv
            /\ inventory_adjust_bulk_do(inv, moves, key, q).moves = moves

\* C7: of two requests that ask the same order for Shipping, at most one
\* reads Ready as the order's old status.
C7_OneObservesReady ==
    \A r1, r2 \in DOMAIN req :
        (/\ r1 # r2
         /\ req[r1].kind = "transition" /\ req[r2].kind = "transition"
         /\ req[r1].new = STATUS_SHIPPING /\ req[r2].new = STATUS_SHIPPING
         /\ req[r1].txn = req[r2].txn
         /\ req[r1].pc \in {"write", "hook", "done"}
         /\ req[r2].pc \in {"write", "hook", "done"})
        => ~(req[r1].old = STATUS_READY /\ req[r2].old = STATUS_READY)

\* C8: when all the requests in flight were quantity adjustments of the one
\* catalog row and all have ended, the row's quantity has changed by the sum
\* of their deltas and the ledger holds one new movement per request.
C8_NoLostUpdate ==
    (/\ req # <<>>
     /\ \A r \in DOMAIN req :
           /\ req[r].kind = "adjust"
           /\ req[r].pc = "done"
           /\ ResolveIndex(trip.inv0, req[r].key) = 1)
    => /\ inv[1].qty = trip.inv0[1].qty + SeqSum([r \in DOMAIN req |-> req[r].delta])
       /\ Len(moves) = Len(req)

\* C11: a finished lookup gives the row whose code is the key when there is
\* one; otherwise the one row whose name is the key; and nothing (0) when no
\* row or more than one row has that name.  It writes no movement.
C11_ResolvePrefersCodeRejectsAmbiguous ==
    (req # <<>> /\ req[1].kind = "resolve" /\ req[1].pc = "done") =>
        LET k == req[1].key
            byCode == {i \in 1..Len(inv) : inv[i].code = k}
            byName == {i \in 1..Len(inv) : inv[i].name = k}
        IN /\ byCode # {} => req[1].res \in byCode
           /\ (byCode = {} /\ Cardinality(byName) = 1) => req[1].res \in byName
           /\ (byCode = {} /\ Cardinality(byName) # 1) => req[1].res = 0
           /\ moves = <<>>

\* C11 witness: a finished lookup of a name that two rows share and that is
\* no row's code.
C11_Witness ==
    /\ req # <<>>
    /\ req[1].kind = "resolve"
    /\ req[1].pc = "done"
    /\ Cardinality({i \in 1..Len(inv) : inv[i].name = req[1].key}) >= 2
    /\ \A i \in 1..Len(inv) : inv[i].code # req[1].key

\* A step of a handler that calls inventory.adjust_quantity, directly or
\* through the hook.
AdjustStep ==
    \/ inventory_adjust_bulk
    \/ inventory_add
    \/ apply_name
    \/ processing_to_shipping
    \/ mark_returned
    \/ delivered_bulk
    \/ move_to_shipping

\* C12: a step that is not an adjustment leaves the quantity of every code
\* that is in the catalog before and after it as it was; in particular an
\* edit of a catalog row does.
C12_OnlyAdjustChangesQuantity ==
    [][~AdjustStep =>
          \A i \in 1..Len(inv), j \in 1..Len(inv') :
              inv'[j].code = inv[i].code => inv'[j].qty = inv[i].qty]_vars

C15_NegativeStockAccepted ==
    \A key \in AdjustKeys, q \in AdjustQtys :
        LET i == ResolveIndex(inv, key)
            a == inventory_adjust_bulk_do(inv, moves, key, q)
        IN (i # 0 /\ inv[i].qty + q < 0) =>
              /\ a.res = "ok"
              /\ a.inv[i].qty = inv[i].qty + q
              /\ Len(a.moves) = Len(moves) + 1
              /\ a.moves[Len(a.moves)].delta = q

\* C16: update_status for an id that is not in the store answers False and
\* leaves the orders, the catalog and the ledger as they are.
C16_UnknownOrderNotFound ==
    \A txn \in TxnInputs \ DOMAIN orders, new \in Statuses :
        LET r == update_status(orders, inv, moves, txn, new, clock)
        IN /\ ~r.ok
           /\ r.orders = orders
           /\ r.inv = inv
           /\ r.moves = moves

\* C16 witness: the store holds an order, the catalog a row, and a request
\* can name an id that is not in the store.
C16_Witness ==
    /\ DOMAIN orders # {}
    /\ inv # <<>>
    /\ TxnInputs \ DOMAIN orders # {}

\* C17: a call of update_status that finds its order sets Status Updated At
\* to the time of the call, sets the time stamp of the new status (Shipping,
\* Delivered, Returned) to that time, and leaves the other typed time stamps
\* as they were.
C17_TransitionStamps ==
    [][(update_status_call /\ req[1].txn \in DOMAIN orders) =>
          LET t == req[1].txn
              new == req[1].new
          IN /\ orders'[t].status = new
             /\ orders'[t].updAt = clock
             /\ orders'[t].shipAt = IF new = STATUS_SHIPPING THEN clock ELSE orders[t].shipAt
             /\ orders'[t].delAt = IF new = STATUS_DELIVERED THEN clock ELSE orders[t].delAt
             /\ orders'[t].retAt = IF new = STATUS_RETURNED THEN clock ELSE orders[t].retAt]_vars

\* C17 witness: a finished call that delivered an order sent out earlier.
C17_Witness ==
    /\ req # <<>>
    /\ req[1].kind = "transition"
    /\ req[1].pc = "done"
    /\ req[1].res # "missing"
    /\ req[1].new = STATUS_DELIVERED
    /\ \E t \in DOMAIN orders :
          /\ t = req[1].txn
          /\ orders[t].delAt = clock
          /\ orders[t].shipAt \in 1..MaxTime

\* C18: an order that stays in the store never loses a typed time stamp:
\* Shipping At, Delivered At and Returned At, once set, are set after every
\* step.
C18_TypedStampsKept ==
    [][\A t \in DOMAIN orders \cap DOMAIN orders' :
          /\ orders[t].shipAt # 0 => orders'[t].shipAt # 0
          /\ orders[t].delAt # 0 => orders'[t].delAt # 0
          /\ orders[t].retAt # 0 => orders'[t].retAt # 0]_vars

\* C19: a call of update_status whose hook raises still writes the new
\* status and its time stamps and answers True with the old and the new
\* status.
C19_HookFailureKeepsStatus ==
    [][LET t == req[1].txn
           new == req[1].new
           r == update_status(orders, inv, moves, t, new, clock)
       IN (update_status_call /\ r.raised) =>
             /\ r.ok
             /\ r.old = orders[t].status
             /\ req'[1].old = orders[t].status
             /\ req'[1].res # "missing"
             /\ orders'[t] = StampRow(orders[t], new, clock)]_vars

\* C19 witness: a finished call that sent a Ready order out while its hook
\* raised.
C19_Witness ==
    /\ req # <<>>
    /\ req[1].kind = "transition"
    /\ req[1].pc = "done"
    /\ req[1].res = "swallowed"
    /\ req[1].old = STATUS_READY
    /\ \E t \in DOMAIN orders :
          t = req[1].txn /\ orders[t].status = STATUS_SHIPPING /\ orders[t].shipAt = clock

\* C20: a call of update_status whose hook raises emits one failure record
\* with the order id, the old status and the new status.
C20_HookFailureReported ==
    [][LET t == req[1].txn
           new == req[1].new
           r == update_status(orders, inv, moves, t, new, clock)
           recs == hook_failure_records(inv, moves, r.orders[t], t, r.old, new)
       IN (update_status_call /\ r.raised) =>
             /\ Len(recs) = 1
             /\ recs[1].txn = t
             /\ recs[1].old = r.old
             /\ recs[1].new = new]_vars

\* C21: a call of update_status for the status the order already has
\* answers an error and changes neither the order nor the catalog nor the
\* ledger.
C21_RepeatedTransitionRejected ==
    [][LET t == req[1].txn
           new == req[1].new
           r == update_status(orders, inv, moves, t, new, clock)
       IN (update_status_call /\ t \in DOMAIN orders /\ orders[t].status = new) =>
             /\ ~r.ok
             /\ orders' = orders
             /\ inv' = inv
             /\ moves' = moves]_vars

\* A step of a handler that changes a status through update_status.
UpdateStatusStep ==
    \/ processing_to_shipping
    \/ mark_returned
    \/ delivered_bulk
    \/ move_to_shipping

\* C22: a step after which an order of the store has another status than
\* before is a step of update_status (which runs the hook for the old and
\* the new status).
C22_StatusOnlyByUpdateStatus ==
    [][(\E t \in DOMAIN orders \cap DOMAIN orders' :
            orders'[t].status # orders[t].status)
       => UpdateStatusStep]_vars

C24_OrderIdsUnique ==
    \A i, j \in 1..Len(orders) : i # j => orders[i].txn # orders[j].txn

\* C25: no two rows of the catalog have the same code, also after
\* additions by requests that run at the same time.
C25_SkuCodesUnique ==
    \A i, j \in 1..Len(inv) : i # j => inv[i].code # inv[j].code

\* C26: apply_all over a list with an id of the store and an id that is not
\* in it puts every id of the store in the new status and reports every
\* other id of the list as failed.
C26_BulkReportsPerId ==
    \A txns \in BulkLists, new \in {STATUS_RETURNED, STATUS_DELIVERED} :
        LET r == apply_all(orders, inv, moves, txns, new, clock)
            ids == {txns[i] : i \in 1..Len(txns)}
        IN (ids \cap DOMAIN orders # {} /\ ids \ DOMAIN orders # {}) =>
              /\ \A t \in ids \cap DOMAIN orders : r.orders[t].status = new
              /\ \A t \in ids \ DOMAIN orders : t \in r.failed

\* C27: add_log with pieces > 0 for a model that names a catalog row appends
\* the log entry, appends exactly one Production movement of +pieces whose
\* ref names the entry, and adds pieces to the row's quantity.
C27_ProductionLogMovesStock ==
    \A lg \in SeamLogs, model \in Names, pieces \in 1..MaxQty :
        LET i == ResolveIndex(inv, model)
            r == add_log(lg, inv, moves, 1, model, pieces)
        IN i # 0 =>
              /\ Len(r.log) = Len(lg) + 1
              /\ Len(r.moves) = Len(moves) + 1
              /\ r.moves[Len(r.moves)].delta = pieces
              /\ r.moves[Len(r.moves)].mtype = "Production"
              /\ r.moves[Len(r.moves)].ref = <<"SEAM", r.log[Len(r.log)].id>>
              /\ r.inv[i].qty = inv[i].qty + pieces

\* The output a report request gets in a given state
ReportOut(od, iv, ss, rq) ==
    IF rq.kind = "stats" THEN stats_do(od, iv, ss, rq).out
    ELSE daily_analysis_do(od, iv, ss, rq).out

\* A report request is served
ReportStep == req[1].pc = "call" /\ req'[1].pc = "done"

\* C28: a report leaves orders, catalog, ledger and the session as they
\* were, and the same request on the state it leaves returns the same output.
C28_ReportReadOnly ==
    [][ReportStep =>
          /\ UNCHANGED <<orders, inv, moves, sess>>
          /\ ReportOut(orders', inv', sess', req[1]) = req'[1].out]_vars

\* A report with totals has been rendered
Reported == req[1].pc = "done" /\ req[1].out.page \in {"stats", "daily"}

\* The orders Delivered with Delivered At within the days from..to
DeliveredInRange(od, from, to) ==
    {t \in DOMAIN od :
        /\ od[t].status = STATUS_DELIVERED /\ od[t].delAt # 0
        /\ from # 0 => od[t].delAt >= Midnight(from)
        /\ to # 0 => od[t].delAt < Midnight(to + 1)}

OrderPrice == [t \in DOMAIN orders |-> orders[t].price]

\* C29: the revenue of a report is the sum of Order Price over exactly the
\* orders that are Delivered with Delivered At in the requested range,
\* whatever their creation time.
C29_RevenueByDeliveredAt ==
    Reported =>
        req[1].out.revenue =
            SumRows(DeliveredInRange(orders, req[1].from, req[1].to), OrderPrice)

\* The SKU an item refers to: by code when it has one, else by name (0: none)
ItemSku(iv, it) ==
    IF it.code # "" THEN FindIndexByCode(iv, it.code)
    ELSE LET hits == {i \in 1..Len(iv) : iv[i].name = it.name}
         IN IF hits = {} THEN 0 ELSE CHOOSE i \in hits : \A j \in hits : i <= j

unitCost(iv, i) ==
    IF i = 0 THEN 0
    ELSE (iv[i].mpu * iv[i].fabric_price) + iv[i].sew + iv[i].access + iv[i].extra

ItemsCogs(iv, items) ==
    SeqSum([i \in 1..Len(items) |-> unitCost(iv, ItemSku(iv, items[i])) * items[i].qty])

ExpectedCogs ==
    [t \in DOMAIN orders |-> ItemsCogs(inv, parse_items_from_row(inv, orders[t]))]

\* C30: the cogs of a report is the sum, over the items of the delivered
\* orders the report covers, of the unit cost of the item's SKU (found by
\* code when the item has one) times the item's quantity.
C30_CogsByItemSku ==
    Reported => req[1].out.cogs_total = SumRows(req[1].out.rows, ExpectedCogs)

\* The order tables that differ from od only in its Shipping orders: any of
\* them removed, or with another price.
ShippingVariants(od) ==
    LET ship == {t \in DOMAIN od : od[t].status = STATUS_SHIPPING}
    IN {[t \in DOMAIN od \ gone |->
            IF t \in ship THEN [od[t] EXCEPT !.price = p] ELSE od[t]] :
          gone \in SUBSET ship, p \in 1..MaxPrice}

C32_SharesSumToPrice ==
    req[1].pc = "done" =>
        AddBits(req[1].out.prod_amt_shipping["A"], req[1].out.prod_amt_shipping["B"])
            = FromInt(orders[ReportIds[1]].price)

\* C33: a session that has not logged in with the passcode creates, changes
\* or deletes no order and no catalog row.
C33_GateProtectsState ==
    [][~sess.auth => UNCHANGED <<orders, inv>>]_vars

\* The invoice line names an order on record with the price on record
InvoiceMatches ==
    /\ req[1].txn \in DOMAIN orders
    /\ orders[req[1].txn].price = req[1].price_val

\* C34: an invoice line that carries an order id marks an order Delivered only when the order exists
\* and its recorded price equals the invoice price; for an unknown id or a
\* different price no order changes and the line is reported as skipped.
C34_InvoiceMatchOnly ==
    [][(req[1].pc = "call" /\ req'[1].pc = "done" /\ IsTxn(req[1].txn)) =>
          IF InvoiceMatches
          THEN \A t \in DOMAIN orders : t # req[1].txn => orders'[t] = orders[t]
          ELSE orders' = orders /\ req'[1].res = "skipped"]_vars

\* C35: for every order in Shipping or Delivered whose items all name catalog
\* rows, the stock taken for it is its items' quantity per key; for every
\* order in Processing, Ready or Returned nothing is taken.
C35_PerOrderStock ==
    \A t \in DOMAIN orders :
        LET items == parse_items_from_row(inv, orders[t])
        IN IF orders[t].status \in {STATUS_SHIPPING, STATUS_DELIVERED}
           THEN AllResolve(inv, items) => \A k \in Keys : -net[t][k] = MapItems(items)[k]
           ELSE \A k \in Keys : net[t][k] = 0

\* C36: every order in Shipping, Delivered or Returned has the typed time
\* stamp of its status set.
C36_StatusHasTypedStamp ==
    \A t \in DOMAIN orders : TypedStampSet(orders[t])

C38_CodesNeverReused ==
    \A i, j \in 1..Len(req) : i < j => req[i].code # req[j].code

\* C39: no delete operation removes an order whose status is Shipping; the
\* order is still in the order store after the step.
C39_ShippingNeverDeleted ==
    [][\A t \in DOMAIN orders :
          orders[t].status = STATUS_SHIPPING => t \in DOMAIN orders']_vars

====
